---- MODULE Spec2Model ----
(***************************************************************************)
(* Session state and request correlation of the OPC UA client              *)
(* (client/src/session_state.rs).                                          *)
(*                                                                         *)
(* One session driver thread runs the methods of SessionState; its call    *)
(* stack is the variable stack (the innermost frame is the last element).  *)
(* Every acquisition of the message queue lock or of the secure channel    *)
(* lock is one step.  A background depositor places responses in the       *)
(* message queue between the steps of the session thread.                  *)
(*                                                                         *)
(* Time is the variable now, in milliseconds since the current top-level   *)
(* call began.  Only std::thread::sleep lets time pass, by exactly         *)
(* SYNC_POLLING_PERIOD; every other step is instantaneous.                 *)
(***************************************************************************)
EXTENDS Integers, Sequences, FiniteSets, TLC

\* ------------------------------------------------------------------ bounds

\* Width of UInt32 in the model: u32::MAX is 2^HandleBits - 1.
HandleBits == 10

\* The request timeout of the session in milliseconds.  The source sets it to
\* DEFAULT_REQUEST_TIMEOUT = 10 * 1000 (200 polls for each wait); the wait loop
\* is parametric in it and the model runs it with a few polls for each wait.
TimeoutBound == 100

\* Number of top-level calls the session driver makes in one behaviour.
MaxCalls == 1

\* Number of Handle::next calls in one behaviour of SpecHandle, in cycles.
MaxCycles == 2

\* Number of next_monitored_item_handle calls in one behaviour of SpecIssue.
MaxItems == 26

\* Number of acknowledgements appended in one behaviour of SpecAcks.
MaxAcks == 3

\* Requests the queue holds before the session driver stops sending, in the
\* specification of the enqueue order.
MaxQueued == 4

\* ------------------------------------------------------- program constants

U32_MAX == 2^HandleBits - 1

DEFAULT_REQUEST_TIMEOUT == TimeoutBound

SYNC_POLLING_PERIOD == 50

REQUEST_HANDLE_FIRST == 1

\* The monitored item handle allocator seeded as the request handle allocator is.
MONITORED_ITEM_HANDLE_FIRST_as_requests == REQUEST_HANDLE_FIRST

MONITORED_ITEM_HANDLE_FIRST == 1000

\* ------------------------------------------------------------ message kinds

\* SupportedMessage is an opaque closed variant; ReadRequest stands for every
\* request kind that is neither of the two handshake kinds nor a publish.
RequestKinds ==
    {"OpenSecureChannelRequest", "CloseSecureChannelRequest", "PublishRequest", "ReadRequest"}

HandshakeKinds == {"OpenSecureChannelRequest", "CloseSecureChannelRequest"}

\* ServiceFault stands for every response kind other than OpenSecureChannelResponse.
ResponseKinds == {"OpenSecureChannelResponse", "ServiceFault"}

SecurityModes == {"None", "Sign", "SignAndEncrypt"}

SecurityPolicies == {"None", "Basic128Rsa15"}

\* Server nonces: "null" is the malformed one set_remote_nonce_from_byte_string rejects.
ServerNonces == {"null", "server_nonce"}

NoAcks == [present |-> FALSE, value |-> <<>>]

NoResponse ==
    [kind |-> "none", request_handle |-> 0, security_token |-> 0, server_nonce |-> "null"]

NullHeader == [authentication_token |-> "null", request_handle |-> 0, timeout_hint |-> 0]

NoRequest ==
    [kind |-> "none", request_header |-> NullHeader, request_type |-> "none",
     security_mode |-> "none", client_nonce |-> 0, subscription_acknowledgements |-> NoAcks]

\* Result<_, StatusCode>: the Ok value is a handle, a response or the unit.
Ok_handle(h) == [ok |-> TRUE, status |-> "Good", handle |-> h, response |-> NoResponse]

Ok_response(r) == [ok |-> TRUE, status |-> "Good", handle |-> 0, response |-> r]

Ok_unit == [ok |-> TRUE, status |-> "Good", handle |-> 0, response |-> NoResponse]

Err(status) == [ok |-> FALSE, status |-> status, handle |-> 0, response |-> NoResponse]

\* SupportedMessage::request_handle()
Message_request_handle(request) == request.request_header.request_handle

\* ------------------------------------------------------------------ Handle

Handle_new(first) == [next |-> first, first |-> first]

\* Handle::next without the comparison with u32::MAX: the increment wraps to 0.
Handle_next_overflows(self) ==
    [value |-> self.next,
     handle |-> [self EXCEPT !.next = (self.next + 1) % (U32_MAX + 1)]]

\* Handle::next that wraps to 0 and not to first.
Handle_next_wraps_to_zero(self) ==
    [value |-> self.next,
     handle |-> IF self.next = U32_MAX
                THEN [self EXCEPT !.next = 0]
                ELSE [self EXCEPT !.next = self.next + 1]]

\* Handle::next: the value issued and the allocator after the call.
Handle_next(self) ==
    [value |-> self.next,
     handle |-> IF self.next = U32_MAX
                THEN [self EXCEPT !.next = self.first]
                ELSE [self EXCEPT !.next = (self.next + 1) % (U32_MAX + 1)]]

\* ------------------------------------------------------------------- state

VARIABLES
    request_timeout,        \* SessionState.request_timeout
    authentication_token,   \* SessionState.authentication_token
    request_handle,         \* SessionState.request_handle, a Handle
    monitored_item_handle,  \* SessionState.monitored_item_handle, a Handle
    subscription_acknowledgements,  \* SessionState.subscription_acknowledgements
    secure_channel,         \* the SecureChannel behind SessionState.secure_channel
    message_queue,          \* the MessageQueue behind SessionState.message_queue
    stack,                  \* call stack of the session driver thread
    ret,                    \* value returned by the frame that returned last
    panicked,               \* the session driver thread has panicked
    now,                    \* wall clock, ms since the current top-level call began
    header,                 \* request header the caller built and has not sent yet
    calls,                  \* number of top-level calls made
    hist,                   \* history of the current top-level call
    handle,                 \* SpecHandle: a Handle allocator
    handle_n,               \* SpecHandle: number of next() calls made on handle
    handle_out,             \* SpecHandle: the values handle issued, in order
    issued,                 \* SpecIssue: history of the handles the session issued
    cycle,                  \* SpecAcks: history of the publish cycle
    locks                   \* SpecLocks: the locks the session driver thread holds

session == <<request_timeout, authentication_token, request_handle, monitored_item_handle,
            subscription_acknowledgements>>

thread == <<stack, ret, panicked, now, header, calls>>

\* The variables the steps of the session driver thread leave alone: those of
\* the allocator of SpecHandle and the histories and locks of the other
\* specifications.
handle_vars == <<handle, handle_n, handle_out, issued, cycle, locks>>

vars == <<session, secure_channel, message_queue, thread, hist, handle_vars>>

\* ---------------------------------------------------------- SecureChannel
\* The secure channel is a collaborator of opcua_core; these are the methods
\* SessionState consumes from it.

SecureChannel_should_renew_security_token(sc) == sc.should_renew

\* A fresh nonce, different from the one the channel holds.
SecureChannel_random_nonce(sc) == sc.local_nonce + 1

SecureChannel_set_local_nonce(sc, nonce) == [sc EXCEPT !.local_nonce = nonce]

SecureChannel_set_security_token(sc, token) == [sc EXCEPT !.security_token = token]

SecureChannel_set_remote_nonce_from_byte_string(sc, nonce) ==
    IF nonce = "null"
    THEN [ok |-> FALSE, status |-> "NonceError", sc |-> sc]
    ELSE [ok |-> TRUE, status |-> "Good", sc |-> [sc EXCEPT !.remote_nonce = nonce]]

SecureChannel_derive_keys(sc) ==
    [sc EXCEPT !.keys = [local |-> sc.local_nonce, remote |-> sc.remote_nonce]]

\* ----------------------------------------------------------- MessageQueue
\* The pending-exchange store: requests in enqueue order, the handles of the
\* synchronous requests still in flight, the unclaimed responses keyed by
\* handle, and the handles notified as timed out.

MessageQueue_add_request(mq, request, async) ==
    [mq EXCEPT !.requests = Append(@, [request |-> request, async |-> async]),
               !.inflight = IF async THEN @ ELSE @ \cup {Message_request_handle(request)}]

MessageQueue_take_response(mq, h) ==
    IF \E r \in mq.responses : r.request_handle = h
    THEN LET r == CHOOSE x \in mq.responses : x.request_handle = h
         IN [some |-> TRUE, response |-> r, mq |-> [mq EXCEPT !.responses = @ \ {r}]]
    ELSE [some |-> FALSE, response |-> NoResponse, mq |-> mq]

\* A request notified as timed out is no longer in flight: a late response to
\* it is discarded.
MessageQueue_request_has_timed_out(mq, h) ==
    [mq EXCEPT !.timed_out = Append(@, h), !.inflight = @ \ {h}]

\* The background reader stores a response under the handle it carries.
MessageQueue_store_response(mq, response) ==
    [mq EXCEPT !.responses = @ \cup {response},
               !.inflight = @ \ {response.request_handle}]

\* ------------------------------------------------- SessionState, accessors

\* take_response that ignores the handle and takes the latest response.
take_response_latest(h) ==
    IF message_queue.responses = {}
    THEN MessageQueue_take_response(message_queue, h)
    ELSE MessageQueue_take_response(message_queue,
             (CHOOSE r \in message_queue.responses :
                 \A x \in message_queue.responses : x.request_handle <= r.request_handle
             ).request_handle)

\* SessionState::take_response
take_response(h) == MessageQueue_take_response(message_queue, h)

\* request_has_timed_out that tells the queue nothing.
request_has_timed_out_silent(h) == message_queue

\* SessionState::request_has_timed_out
request_has_timed_out(h) == MessageQueue_request_has_timed_out(message_queue, h)

\* add_request that puts the request at the head of the queue.
add_request_front(request, async) ==
    [message_queue EXCEPT
        !.requests = <<[request |-> request, async |-> async]>> \o @,
        !.inflight = IF async THEN @ ELSE @ \cup {Message_request_handle(request)}]

\* SessionState::add_request
add_request(request, async) == MessageQueue_add_request(message_queue, request, async)

\* make_request_header that leaves the authentication token of the header null.
make_request_header_null_token ==
    [header |-> [authentication_token |-> "null",
                 request_handle |-> Handle_next(request_handle).value,
                 timeout_hint |-> request_timeout],
     request_handle |-> Handle_next(request_handle).handle]

\* SessionState::make_request_header: the header and the allocator after it.
\* The timestamp, return_diagnostics, audit_entry_id and additional_header
\* fields are not read by the session and are left out.
make_request_header ==
    [header |-> [authentication_token |-> authentication_token,
                 request_handle |-> Handle_next(request_handle).value,
                 timeout_hint |-> request_timeout],
     request_handle |-> Handle_next(request_handle).handle]

\* ---------------------------------------------------------------- frames

Frame(fn) ==
    [fn |-> fn, pc |-> "start", request |-> NoRequest, async |-> FALSE,
     request_handle |-> 0, request_timeout |-> 0, start |-> 0,
     request_type |-> "none", security_mode |-> "none", security_policy |-> "none",
     client_nonce |-> 0, acks |-> <<>>,
     began |-> now]     \* history: the time the frame was entered

Top == stack[Len(stack)]

Running == stack # <<>> /\ ~panicked

At(fn, pc) == Running /\ Top.fn = fn /\ Top.pc = pc

\* The frame on top moves to pc.
Goto(pc) == [stack EXCEPT ![Len(stack)].pc = pc]

\* The frame on top calls frame f and continues at pc when f returns.
Call(f, pc) == Append(Goto(pc), f)

\* The frame on top returns.
Pop == SubSeq(stack, 1, Len(stack) - 1)

NewHist(fn, request, async, request_type) ==
    [fn |-> fn, request |-> request, async |-> async, request_type |-> request_type,
     should_renew |-> secure_channel.should_renew,
     channel0 |-> secure_channel,
     takes |-> <<>>,        \* take_response calls that yielded a response
     polls |-> 0,           \* take_response calls
     sleeps |-> 0,          \* sleeps of the wait loop
     in_time |-> {},        \* handles with a response deposited before their deadline
     waits |-> <<>>,        \* wait loops that returned
     sends |-> <<>>,        \* send_request calls that returned
     renewals |-> <<>>,     \* issue_or_renew_secure_channel calls that returned
     ensured |-> <<>>,      \* results of ensure_secure_channel_token, discarded by the caller
     channel_calls |-> <<>>, \* methods of the secure channel invoked, in order
     acks |-> <<>>,         \* the acknowledgements passed to async_publish
     done |-> FALSE]

\* History of SpecIssue before any handle is issued: the number of headers
\* built, the handles they carry and the authentication token of the session
\* when the last was built, the number of monitored item handles issued, their
\* values and the last of them, and the allocators that have wrapped.
NoIssued ==
    [headers |-> 0, handles |-> {}, token |-> "null",
     items_n |-> 0, items |-> {}, last_item |-> 0, wrapped |-> {}]

\* History of SpecAcks before any acknowledgement: the acknowledgements
\* appended, the lists subscription_acknowledgements() returned, and the list
\* the session driver holds between the call and async_publish.
NoCycle ==
    [appended |-> <<>>, returned |-> <<>>, held |-> [present |-> FALSE, value |-> <<>>]]

\* A secure channel as the session is given it.
SecureChannel_new(mode, policy) ==
    [security_mode |-> mode, security_policy |-> policy,
     should_renew |-> FALSE, local_nonce |-> 0, remote_nonce |-> "null",
     security_token |-> 0, keys |-> [local |-> 0, remote |-> "null"]]

\* SessionState::new, on a secure channel of any mode and policy and an empty queue.
Init ==
    /\ request_timeout = DEFAULT_REQUEST_TIMEOUT
    /\ authentication_token = "null"
    /\ request_handle = Handle_new(REQUEST_HANDLE_FIRST)
    /\ monitored_item_handle = Handle_new(MONITORED_ITEM_HANDLE_FIRST)
    /\ subscription_acknowledgements = <<>>
    /\ \E mode \in SecurityModes, policy \in SecurityPolicies :
          secure_channel = SecureChannel_new(mode, policy)
    /\ message_queue = [requests |-> <<>>, inflight |-> {}, responses |-> {}, timed_out |-> <<>>]
    /\ stack = <<>>
    /\ ret = Ok_unit
    /\ panicked = FALSE
    /\ now = 0
    /\ header = NullHeader
    /\ calls = 0
    /\ hist = NewHist("none", NoRequest, FALSE, "none")
    /\ handle = Handle_new(REQUEST_HANDLE_FIRST)
    /\ handle_n = 0
    /\ handle_out = <<>>
    /\ issued = NoIssued
    /\ cycle = NoCycle
    /\ locks = {}

\* ------------------------------------------------------- top-level calls

Idle == stack = <<>> /\ ~panicked

\* The headers a caller puts in a request it sends: the one it built with
\* make_request_header, or a header that carries the handle 0.
CallerHeaders == {header, NullHeader}

\* The request kinds a caller passes to send_request and async_send_request.
CallerKinds == {"OpenSecureChannelRequest", "CloseSecureChannelRequest", "ReadRequest"}

\* The acknowledgement lists a caller passes to async_publish.
AckLists == {<<>>, <<"ack1">>, <<"ack1", "ack2">>}

CallerRequest(kind, hdr) ==
    [NoRequest EXCEPT !.kind = kind, !.request_header = hdr,
                      !.request_type = IF kind = "OpenSecureChannelRequest" THEN "Issue" ELSE "none"]

\* The session driver enters a method of SessionState.  By then the transport
\* has sent the requests the earlier calls queued: requests and timed_out hold
\* what the current call adds.
Enter(frame, h) ==
    /\ Idle
    /\ calls < MaxCalls
    /\ calls' = calls + 1
    /\ stack' = <<[frame EXCEPT !.began = 0]>>
    /\ now' = 0
    /\ ret' = Ok_unit
    /\ hist' = h
    /\ message_queue' = [message_queue EXCEPT !.requests = <<>>, !.timed_out = <<>>]
    /\ UNCHANGED <<session, secure_channel, panicked, handle_vars>>

\* pub fn make_request_header, called by the session driver to build a request.
MakeRequestHeader ==
    /\ Idle
    /\ calls < MaxCalls
    /\ header = NullHeader
    /\ header' = make_request_header.header
    /\ request_handle' = make_request_header.request_handle
    /\ UNCHANGED <<request_timeout, authentication_token, monitored_item_handle,
                   subscription_acknowledgements, secure_channel, message_queue,
                   stack, ret, panicked, now, calls,
                   hist, handle_vars>>

CallSendRequest ==
    \E kind \in CallerKinds, hdr \in CallerHeaders :
        /\ Enter([Frame("send_request") EXCEPT !.request = CallerRequest(kind, hdr)],
                 NewHist("send_request", CallerRequest(kind, hdr), FALSE, "none"))
        /\ header' = IF hdr = header THEN NullHeader ELSE header

CallAsyncSendRequest ==
    \E kind \in CallerKinds, hdr \in CallerHeaders, async \in BOOLEAN :
        /\ Enter([Frame("async_send_request") EXCEPT !.request = CallerRequest(kind, hdr),
                                                     !.async = async],
                 NewHist("async_send_request", CallerRequest(kind, hdr), async, "none"))
        /\ header' = IF hdr = header THEN NullHeader ELSE header

CallAsyncPublish ==
    \E acks \in AckLists :
        /\ Enter([Frame("async_publish") EXCEPT !.acks = acks],
                 [NewHist("async_publish", NoRequest, TRUE, "none") EXCEPT !.acks = acks])
        /\ UNCHANGED header

CallIssueOrRenewSecureChannel ==
    \E request_type \in {"Issue", "Renew"} :
        /\ Enter([Frame("issue_or_renew_secure_channel") EXCEPT !.request_type = request_type],
                 NewHist("issue_or_renew_secure_channel", NoRequest, FALSE, request_type))
        /\ UNCHANGED header

\* The frame on top returns v; h is the history after the return.
Return(v, h) ==
    /\ stack' = Pop
    /\ ret' = v
    /\ hist' = IF Len(stack) = 1 THEN [h EXCEPT !.done = TRUE] ELSE h

\* ------------------------------------------------------------ async_publish

\* The acknowledgements of the publish request always present, empty or not.
PublishAcknowledgements_always_some(acks) == [present |-> TRUE, value |-> acks]

\* line 160: None for an empty slice, Some of a copy of it otherwise.
PublishAcknowledgements(acks) ==
    IF acks = <<>> THEN NoAcks ELSE [present |-> TRUE, value |-> acks]

AsyncPublishSend ==
    /\ At("async_publish", "start")
    /\ LET request ==
               [NoRequest EXCEPT
                    !.kind = "PublishRequest",
                    !.request_header = make_request_header.header,
                    !.subscription_acknowledgements = PublishAcknowledgements(Top.acks)]
       IN stack' = Call([Frame("async_send_request") EXCEPT !.request = request,
                                                           !.async = TRUE], "sent")
    /\ request_handle' = make_request_header.request_handle
    /\ UNCHANGED <<request_timeout, authentication_token, monitored_item_handle,
                   subscription_acknowledgements, secure_channel, message_queue,
                   ret, panicked, now, header, calls,
                   hist, handle_vars>>

AsyncPublishReturn ==
    /\ At("async_publish", "sent")
    /\ Return(IF ret.ok THEN Ok_handle(ret.handle) ELSE ret, hist)
    /\ UNCHANGED <<session, secure_channel, message_queue, panicked, now, header, calls,
                   handle_vars>>

\* ------------------------------------------------------------- send_request

SendRequestSend ==
    /\ At("send_request", "start")
    /\ stack' = Call([Frame("async_send_request") EXCEPT !.request = Top.request,
                                                        !.async = FALSE], "sent")
    /\ UNCHANGED <<session, secure_channel, message_queue, ret, panicked, now, header,
                   calls, hist, handle_vars>>

\* async_send_request(request, false)? and the call of the wait loop.
SendRequestWait ==
    /\ At("send_request", "sent")
    /\ IF ret.ok
       THEN /\ stack' = Call([Frame("wait_for_sync_response") EXCEPT
                                  !.request_handle = ret.handle,
                                  !.request_timeout = request_timeout], "waited")
            /\ UNCHANGED <<ret, hist>>
       ELSE Return(ret, [hist EXCEPT !.sends = Append(@,
                [request |-> Top.request, began |-> Top.began, ended |-> now, ret |-> ret])])
    /\ UNCHANGED <<session, secure_channel, message_queue, panicked, now, header, calls,
                   handle_vars>>

SendRequestReturn ==
    /\ At("send_request", "waited")
    /\ Return(ret, [hist EXCEPT !.sends = Append(@,
                [request |-> Top.request, began |-> Top.began, ended |-> now, ret |-> ret])])
    /\ UNCHANGED <<session, secure_channel, message_queue, panicked, now, header, calls,
                   handle_vars>>

\* ------------------------------------------------------- async_send_request

\* The match with its second pattern left out.
IsHandshake_only_open(request) == request.kind = "OpenSecureChannelRequest"

\* line 180: the kinds that are sent without a look at the security token.
IsHandshake(request) == request.kind \in HandshakeKinds

\* The match on the request kind: every kind but the two handshake kinds makes
\* sure the secure channel token has not expired.
AsyncSendRequestMatch ==
    /\ At("async_send_request", "start")
    /\ stack' = IF IsHandshake(Top.request)
                THEN Goto("enqueue")
                ELSE Call(Frame("ensure_secure_channel_token"), "ensured")
    /\ UNCHANGED <<session, secure_channel, message_queue, ret, panicked, now, header,
                   calls, hist, handle_vars>>

\* self.ensure_secure_channel_token()?: the error of the renewal is returned.
AsyncSendRequestEnsured_propagates ==
    /\ At("async_send_request", "ensured")
    /\ IF ret.ok
       THEN /\ stack' = Goto("enqueue")
            /\ hist' = [hist EXCEPT !.ensured = Append(@, ret)]
            /\ UNCHANGED ret
       ELSE Return(ret, [hist EXCEPT !.ensured = Append(@, ret)])
    /\ UNCHANGED <<session, secure_channel, message_queue, panicked, now, header,
                   calls, handle_vars>>

\* let _ = self.ensure_secure_channel_token(): the result is dropped.
AsyncSendRequestEnsured ==
    /\ At("async_send_request", "ensured")
    /\ stack' = Goto("enqueue")
    /\ hist' = [hist EXCEPT !.ensured = Append(@, ret)]
    /\ UNCHANGED <<session, secure_channel, message_queue, ret, panicked, now, header,
                   calls, handle_vars>>

AsyncSendRequestEnqueue ==
    /\ At("async_send_request", "enqueue")
    /\ message_queue' = add_request(Top.request, Top.async)
    /\ Return(Ok_handle(Message_request_handle(Top.request)), hist)
    /\ UNCHANGED <<session, secure_channel, panicked, now, header, calls, handle_vars>>

\* ---------------------------------------------- ensure_secure_channel_token

\* The renewal run whatever the channel says.
should_renew_security_token_always == TRUE

\* lines 243-246: the predicate of the channel, read under its read lock.
should_renew_security_token == SecureChannel_should_renew_security_token(secure_channel)

EnsureSecureChannelToken ==
    /\ At("ensure_secure_channel_token", "start")
    /\ IF should_renew_security_token
       THEN /\ stack' = Call([Frame("issue_or_renew_secure_channel") EXCEPT
                                  !.request_type = "Renew"], "renewed")
            /\ UNCHANGED <<ret, hist>>
       ELSE Return(Ok_unit, hist)
    /\ UNCHANGED <<session, secure_channel, message_queue, panicked, now, header, calls,
                   handle_vars>>

EnsureSecureChannelTokenReturn ==
    /\ At("ensure_secure_channel_token", "renewed")
    /\ Return(ret, hist)
    /\ UNCHANGED <<session, secure_channel, message_queue, panicked, now, header, calls,
                   handle_vars>>

\* -------------------------------------------- issue_or_renew_secure_channel

\* The nonce block without set_local_nonce: the fresh nonce goes into the
\* request only.
IssueOrRenewNonce_keeps_nonce ==
    /\ At("issue_or_renew_secure_channel", "start")
    /\ LET client_nonce == SecureChannel_random_nonce(secure_channel)
       IN /\ secure_channel' = secure_channel
          /\ stack' = [stack EXCEPT ![Len(stack)] =
                  [@ EXCEPT !.pc = "build",
                            !.security_mode = secure_channel.security_mode,
                            !.security_policy = secure_channel.security_policy,
                            !.client_nonce = client_nonce]]
    /\ hist' = [hist EXCEPT !.channel_calls = Append(@, "set_local_nonce")]
    /\ UNCHANGED <<session, message_queue, ret, panicked, now, header, calls, handle_vars>>

\* The first write lock: a fresh client nonce becomes the local nonce, and the
\* security mode and policy are read.
IssueOrRenewNonce ==
    /\ At("issue_or_renew_secure_channel", "start")
    /\ LET client_nonce == SecureChannel_random_nonce(secure_channel)
       IN /\ secure_channel' = SecureChannel_set_local_nonce(secure_channel, client_nonce)
          /\ stack' = [stack EXCEPT ![Len(stack)] =
                  [@ EXCEPT !.pc = "build",
                            !.security_mode = secure_channel.security_mode,
                            !.security_policy = secure_channel.security_policy,
                            !.client_nonce = client_nonce]]
    /\ hist' = [hist EXCEPT !.channel_calls = Append(@, "set_local_nonce")]
    /\ UNCHANGED <<session, message_queue, ret, panicked, now, header, calls, handle_vars>>

\* The OpenSecureChannelRequest sent with async_send_request: nothing waits for
\* its response.
IssueOrRenewSend_async ==
    /\ At("issue_or_renew_secure_channel", "build")
    /\ LET request ==
               [NoRequest EXCEPT
                    !.kind = "OpenSecureChannelRequest",
                    !.request_header = make_request_header.header,
                    !.request_type = Top.request_type,
                    !.security_mode = Top.security_mode,
                    !.client_nonce = Top.client_nonce]
       IN stack' = Append([stack EXCEPT ![Len(stack)] =
                               [@ EXCEPT !.pc = "response", !.request = request]],
                          [Frame("async_send_request") EXCEPT !.request = request])
    /\ request_handle' = make_request_header.request_handle
    /\ UNCHANGED <<request_timeout, authentication_token, monitored_item_handle,
                   subscription_acknowledgements, secure_channel, message_queue,
                   ret, panicked, now, header, calls,
                   hist, handle_vars>>

\* The OpenSecureChannelRequest is built and sent with send_request.
IssueOrRenewSend ==
    /\ At("issue_or_renew_secure_channel", "build")
    /\ LET request ==
               [NoRequest EXCEPT
                    !.kind = "OpenSecureChannelRequest",
                    !.request_header = make_request_header.header,
                    !.request_type = Top.request_type,
                    !.security_mode = Top.security_mode,
                    !.client_nonce = Top.client_nonce]
       IN stack' = Append([stack EXCEPT ![Len(stack)] =
                               [@ EXCEPT !.pc = "response", !.request = request]],
                          [Frame("send_request") EXCEPT !.request = request])
    /\ request_handle' = make_request_header.request_handle
    /\ UNCHANGED <<request_timeout, authentication_token, monitored_item_handle,
                   subscription_acknowledgements, secure_channel, message_queue,
                   ret, panicked, now, header, calls,
                   hist, handle_vars>>

\* The condition without its test of the policy.
DerivesKeys_ignores_policy(security_policy, security_mode) ==
    security_mode = "Sign" \/ security_mode = "SignAndEncrypt"

\* line 286: the nonce is consumed and the keys are derived under these modes.
DerivesKeys(security_policy, security_mode) ==
    security_policy # "None" /\ (security_mode = "Sign" \/ security_mode = "SignAndEncrypt")

\* Every response taken for an OpenSecureChannelResponse.
IsOpenSecureChannelResponse_any(response) == TRUE

\* line 280: if let SupportedMessage::OpenSecureChannelResponse(response) = response
IsOpenSecureChannelResponse(response) == response.kind = "OpenSecureChannelResponse"

\* ::process_unexpected_response, of the crate root.
process_unexpected_response(response) == "UnexpectedResponse"

Renewal(frame, result) ==
    [request_type |-> frame.request_type, request |-> frame.request,
     security_mode |-> frame.security_mode, security_policy |-> frame.security_policy,
     response |-> ret, ret |-> result]

\* send_request(..)? and what follows it; the updates of the secure channel
\* are made under one write lock.
IssueOrRenewResponse ==
    /\ At("issue_or_renew_secure_channel", "response")
    /\ IF ~ret.ok
       THEN /\ Return(ret, [hist EXCEPT !.renewals = Append(@, Renewal(Top, ret))])
            /\ UNCHANGED secure_channel
       ELSE IF IsOpenSecureChannelResponse(ret.response)
       THEN LET sc1 == SecureChannel_set_security_token(secure_channel,
                                                        ret.response.security_token)
                nonce == SecureChannel_set_remote_nonce_from_byte_string(
                             sc1, ret.response.server_nonce)
            IN IF DerivesKeys(Top.security_policy, Top.security_mode)
               THEN IF nonce.ok
                    THEN /\ secure_channel' = SecureChannel_derive_keys(nonce.sc)
                         /\ Return(Ok_unit,
                                [hist EXCEPT
                                    !.renewals = Append(@, Renewal(Top, Ok_unit)),
                                    !.channel_calls = @ \o <<"set_security_token",
                                        "set_remote_nonce_from_byte_string", "derive_keys">>])
                    ELSE /\ secure_channel' = sc1
                         /\ Return(Err(nonce.status),
                                [hist EXCEPT
                                    !.renewals = Append(@, Renewal(Top, Err(nonce.status))),
                                    !.channel_calls = @ \o <<"set_security_token",
                                        "set_remote_nonce_from_byte_string">>])
               ELSE /\ secure_channel' = sc1
                    /\ Return(Ok_unit,
                           [hist EXCEPT
                               !.renewals = Append(@, Renewal(Top, Ok_unit)),
                               !.channel_calls = Append(@, "set_security_token")])
       ELSE /\ Return(Err(process_unexpected_response(ret.response)),
                   [hist EXCEPT !.renewals = Append(@,
                       Renewal(Top, Err(process_unexpected_response(ret.response))))])
            /\ UNCHANGED secure_channel
    /\ UNCHANGED <<session, message_queue, panicked, now, header, calls, handle_vars>>

\* --------------------------------------------------- wait_for_sync_response

\* The deadline measured from the epoch of the clock, not from the start of the loop.
TimedOut_no_start(start, t, timeout) == t >= timeout

\* line 215: the deadline has passed.
TimedOut(start, t, timeout) == t - start >= timeout

Wait(frame, ok) == [handle |-> frame.request_handle, start |-> frame.start,
                    ended |-> now, ok |-> ok]

\* The wait loop without its test of the request handle.
IsZeroHandle_never(h) == FALSE

\* line 201: if request_handle == 0
IsZeroHandle(h) == h = 0

\* A request handle of 0 panics; otherwise the loop starts its clock.
WaitEntry ==
    /\ At("wait_for_sync_response", "start")
    /\ IF IsZeroHandle(Top.request_handle)
       THEN /\ panicked' = TRUE
            /\ UNCHANGED stack
       ELSE /\ stack' = [stack EXCEPT ![Len(stack)] = [@ EXCEPT !.pc = "poll", !.start = now]]
            /\ UNCHANGED panicked
    /\ UNCHANGED <<session, secure_channel, message_queue, ret, now, header, calls, hist,
                   handle_vars>>

\* self.take_response(request_handle), under the write lock of the queue.
WaitPoll ==
    /\ At("wait_for_sync_response", "poll")
    /\ LET taken == take_response(Top.request_handle)
           polled == [hist EXCEPT !.polls = @ + 1]
       IN /\ message_queue' = taken.mq
          /\ IF taken.some
             THEN Return(Ok_response(taken.response),
                      [polled EXCEPT
                          !.takes = Append(@,
                              [handle |-> Top.request_handle,
                               stored |-> {r \in message_queue.responses :
                                              r.request_handle = Top.request_handle}]),
                          !.waits = Append(@, Wait(Top, TRUE))])
             ELSE /\ stack' = Goto("check")
                  /\ hist' = polled
                  /\ UNCHANGED ret
    /\ UNCHANGED <<session, secure_channel, panicked, now, header, calls, handle_vars>>

\* The clock is read and compared with the timeout.
WaitCheckTime ==
    /\ At("wait_for_sync_response", "check")
    /\ stack' = IF TimedOut(Top.start, now, Top.request_timeout)
                THEN Goto("notify")
                ELSE Goto("sleep")
    /\ UNCHANGED <<session, secure_channel, message_queue, ret, panicked, now, header,
                   calls, hist, handle_vars>>

\* The timeout branch with one more take_response under the lock of the
\* notification: a response that came after the last poll is returned.
WaitTimeout_takes_late_response ==
    /\ At("wait_for_sync_response", "notify")
    /\ LET taken == take_response(Top.request_handle)
       IN IF taken.some
          THEN /\ message_queue' = taken.mq
               /\ Return(Ok_response(taken.response),
                       [hist EXCEPT
                           !.takes = Append(@,
                               [handle |-> Top.request_handle,
                                stored |-> {r \in message_queue.responses :
                                               r.request_handle = Top.request_handle}]),
                           !.waits = Append(@, Wait(Top, TRUE))])
          ELSE /\ message_queue' = request_has_timed_out(Top.request_handle)
               /\ Return(Err("BadTimeout"),
                       [hist EXCEPT !.waits = Append(@, Wait(Top, FALSE))])
    /\ UNCHANGED <<session, secure_channel, panicked, now, header, calls, handle_vars>>

\* self.request_has_timed_out(request_handle), under the write lock of the queue.
WaitTimeout ==
    /\ At("wait_for_sync_response", "notify")
    /\ message_queue' = request_has_timed_out(Top.request_handle)
    /\ Return(Err("BadTimeout"), [hist EXCEPT !.waits = Append(@, Wait(Top, FALSE))])
    /\ UNCHANGED <<session, secure_channel, panicked, now, header, calls, handle_vars>>

\* std::thread::sleep for the polling period.
WaitSleep ==
    /\ At("wait_for_sync_response", "sleep")
    /\ now' = now + SYNC_POLLING_PERIOD
    /\ stack' = Goto("poll")
    /\ hist' = [hist EXCEPT !.sleeps = @ + 1]
    /\ UNCHANGED <<session, secure_channel, message_queue, ret, panicked, header, calls,
                   handle_vars>>

\* ------------------------------------------------------------ environment

\* The token the server issues in its response to the request with handle h.
\* The channel starts with token 0; the server numbers its tokens, and the
\* session treats the number as opaque.
ServerToken(h) == h + 1

\* The responses the server can send to the request with handle h.
Responses(h) ==
    {[kind |-> "OpenSecureChannelResponse", request_handle |-> h,
      security_token |-> ServerToken(h), server_nonce |-> n] : n \in ServerNonces}
    \cup {[kind |-> "ServiceFault", request_handle |-> h,
           security_token |-> 0, server_nonce |-> "null"]}

\* History: a response deposited now under h is in the store before the
\* deadline of the wait loop for h.
InTime(h) ==
    /\ \A i \in 1..Len(hist.waits) : hist.waits[i].handle # h
    /\ \/ ~(Running /\ Top.fn = "wait_for_sync_response" /\ Top.request_handle = h
            /\ Top.pc # "start")
       \/ now - Top.start < Top.request_timeout

\* The handles of the requests the current call has enqueued.
Enqueued ==
    {Message_request_handle(message_queue.requests[i].request) :
        i \in 1..Len(message_queue.requests)}

\* The background reader deposits the response to a synchronous request in
\* flight.  The session polls only for requests of the current call, so the
\* response to a request of an earlier call is deposited between the calls:
\* depositing it later commutes with every step of the session.
Deposit ==
    \E h \in message_queue.inflight : \E response \in Responses(h) :
        /\ Idle \/ h \in Enqueued
        /\ message_queue' = MessageQueue_store_response(message_queue, response)
        /\ hist' = IF InTime(h) THEN [hist EXCEPT !.in_time = @ \cup {h}] ELSE hist
        /\ UNCHANGED <<session, secure_channel, thread, handle_vars>>

\* The security token of the channel ages, or the channel is given a new one:
\* should_renew_security_token changes.  The session reads it once in a
\* top-level call, so it changes between the calls.
ChannelAges ==
    /\ Idle
    /\ calls < MaxCalls
    /\ secure_channel' = [secure_channel EXCEPT !.should_renew = ~@]
    /\ UNCHANGED <<session, message_queue, thread, hist, handle_vars>>

Next ==
    \/ MakeRequestHeader
    \/ CallSendRequest
    \/ CallAsyncSendRequest
    \/ CallAsyncPublish
    \/ CallIssueOrRenewSecureChannel
    \/ AsyncPublishSend
    \/ AsyncPublishReturn
    \/ SendRequestSend
    \/ SendRequestWait
    \/ SendRequestReturn
    \/ AsyncSendRequestMatch
    \/ AsyncSendRequestEnsured
    \/ AsyncSendRequestEnqueue
    \/ EnsureSecureChannelToken
    \/ EnsureSecureChannelTokenReturn
    \/ IssueOrRenewNonce
    \/ IssueOrRenewSend
    \/ IssueOrRenewResponse
    \/ WaitEntry
    \/ WaitPoll
    \/ WaitCheckTime
    \/ WaitTimeout
    \/ WaitSleep
    \/ Deposit
    \/ ChannelAges

Spec == Init /\ [][Next]_vars

\* ------------------------------------------------ the Handle allocator alone

\* The seeds of the allocators under check: 0, the two seeds of the session,
\* and the two next to the maximum.
Firsts == {0, REQUEST_HANDLE_FIRST, MONITORED_ITEM_HANDLE_FIRST, U32_MAX - 1, U32_MAX}

\* Length of one cycle of the allocator h.
Cycle(h) == U32_MAX - h.first + 1

\* Handle::new(first) for a seed of Firsts; the session is left as constructed.
InitHandle ==
    /\ request_timeout = DEFAULT_REQUEST_TIMEOUT
    /\ authentication_token = "null"
    /\ request_handle = Handle_new(REQUEST_HANDLE_FIRST)
    /\ monitored_item_handle = Handle_new(MONITORED_ITEM_HANDLE_FIRST)
    /\ subscription_acknowledgements = <<>>
    /\ secure_channel = SecureChannel_new("None", "None")
    /\ message_queue = [requests |-> <<>>, inflight |-> {}, responses |-> {}, timed_out |-> <<>>]
    /\ stack = <<>>
    /\ ret = Ok_unit
    /\ panicked = FALSE
    /\ now = 0
    /\ header = NullHeader
    /\ calls = 0
    /\ hist = NewHist("none", NoRequest, FALSE, "none")
    /\ \E first \in Firsts : handle = Handle_new(first)
    /\ handle_n = 0
    /\ handle_out = <<>>
    /\ issued = NoIssued
    /\ cycle = NoCycle
    /\ locks = {}

\* One call of handle.next().
HandleNext ==
    /\ handle_n < MaxCycles * Cycle(handle) + 1
    /\ handle' = Handle_next(handle).handle
    /\ handle_out' = Append(handle_out, Handle_next(handle).value)
    /\ handle_n' = handle_n + 1
    /\ UNCHANGED <<session, secure_channel, message_queue, thread, hist, issued, cycle, locks>>

NextHandle == HandleNext

SpecHandle == InitHandle /\ [][NextHandle]_vars

\* ------------------------------------------- the handles a session issues

\* The authentication tokens the server gives a session.
AuthenticationTokens == {"null", "token"}

\* Number of make_request_header calls in one behaviour of SpecIssue: the
\* request handle allocator wraps, and issues two handles more.
MaxHeaders == U32_MAX - REQUEST_HANDLE_FIRST + 3

\* SessionState::next_monitored_item_handle: the value and the allocator after it.
next_monitored_item_handle == Handle_next(monitored_item_handle)

\* SessionState::new, on a channel without security.
InitIssue ==
    /\ Init
    /\ secure_channel = SecureChannel_new("None", "None")

\* pub fn make_request_header, called by the session driver.
IssueRequestHeader ==
    /\ Idle
    /\ issued.headers < MaxHeaders
    /\ header' = make_request_header.header
    /\ request_handle' = make_request_header.request_handle
    /\ issued' = [issued EXCEPT
           !.headers = @ + 1,
           !.handles = @ \cup {make_request_header.header.request_handle},
           !.token = authentication_token,
           !.wrapped = IF make_request_header.request_handle.next <= request_handle.next
                       THEN @ \cup {"request_handle"} ELSE @]
    /\ UNCHANGED <<request_timeout, authentication_token, monitored_item_handle,
                   subscription_acknowledgements, secure_channel, message_queue,
                   stack, ret, panicked, now, calls, hist,
                   handle, handle_n, handle_out, cycle, locks>>

\* pub fn next_monitored_item_handle, called by the session driver.
NextMonitoredItemHandle ==
    /\ Idle
    /\ issued.items_n < MaxItems
    /\ monitored_item_handle' = next_monitored_item_handle.handle
    /\ issued' = [issued EXCEPT
           !.items_n = @ + 1,
           !.items = @ \cup {next_monitored_item_handle.value},
           !.last_item = next_monitored_item_handle.value,
           !.wrapped = IF next_monitored_item_handle.handle.next <= monitored_item_handle.next
                       THEN @ \cup {"monitored_item_handle"} ELSE @]
    /\ UNCHANGED <<request_timeout, authentication_token, request_handle,
                   subscription_acknowledgements, secure_channel, message_queue,
                   thread, hist, handle, handle_n, handle_out, cycle, locks>>

\* pub fn set_authentication_token
SetAuthenticationToken ==
    \E token \in AuthenticationTokens :
        /\ Idle
        /\ token # authentication_token
        /\ authentication_token' = token
        /\ UNCHANGED <<request_timeout, request_handle, monitored_item_handle,
                       subscription_acknowledgements, secure_channel, message_queue,
                       thread, hist, handle_vars>>

NextIssue ==
    \/ IssueRequestHeader
    \/ NextMonitoredItemHandle
    \/ SetAuthenticationToken

SpecIssue == InitIssue /\ [][NextIssue]_vars

\* -------------------------------------------------------- the publish cycle

\* The acknowledgement of the k-th notification: a subscription and the
\* sequence number of the notification.
SubscriptionAcknowledgement(k) == [subscription_id |-> 1, sequence_number |-> k]

\* subscription_acknowledgements() that returns a copy and drains nothing.
subscription_acknowledgements_clone ==
    [value |-> subscription_acknowledgements, pending |-> subscription_acknowledgements]

\* SessionState::subscription_acknowledgements(): drain(..).collect(), the
\* list returned and the list left pending.
subscription_acknowledgements_drain ==
    [value |-> subscription_acknowledgements, pending |-> <<>>]

\* The subscription code pushes the acknowledgement of a notification on the
\* pub field subscription_acknowledgements.
AppendAcknowledgement ==
    /\ Idle
    /\ Len(cycle.appended) < MaxAcks
    /\ LET ack == SubscriptionAcknowledgement(Len(cycle.appended) + 1)
       IN /\ subscription_acknowledgements' = Append(subscription_acknowledgements, ack)
          /\ cycle' = [cycle EXCEPT !.appended = Append(@, ack)]
    /\ UNCHANGED <<request_timeout, authentication_token, request_handle,
                   monitored_item_handle, secure_channel, message_queue, thread, hist,
                   handle, handle_n, handle_out, issued, locks>>

\* pub fn subscription_acknowledgements, called by the session driver, which
\* holds the list returned.
SubscriptionAcknowledgements ==
    /\ Idle
    /\ Len(cycle.returned) <= MaxAcks
    /\ subscription_acknowledgements' = subscription_acknowledgements_drain.pending
    /\ cycle' = [cycle EXCEPT
           !.returned = Append(@, subscription_acknowledgements_drain.value),
           !.held = [present |-> TRUE, value |-> subscription_acknowledgements_drain.value]]
    /\ UNCHANGED <<request_timeout, authentication_token, request_handle,
                   monitored_item_handle, secure_channel, message_queue, thread, hist,
                   handle, handle_n, handle_out, issued, locks>>

\* The publish cycle of the session driver passes the list it holds to
\* async_publish.  The requests stay in the queue: the cycle is followed over
\* several publish requests.
PublishDrained ==
    /\ Idle
    /\ cycle.held.present
    /\ stack' = <<[Frame("async_publish") EXCEPT !.acks = cycle.held.value, !.began = 0]>>
    /\ hist' = [NewHist("async_publish", NoRequest, TRUE, "none") EXCEPT
                    !.acks = cycle.held.value]
    /\ now' = 0
    /\ ret' = Ok_unit
    /\ cycle' = [cycle EXCEPT !.held = [present |-> FALSE, value |-> <<>>]]
    /\ UNCHANGED <<session, secure_channel, message_queue, panicked, header, calls,
                   handle, handle_n, handle_out, issued, locks>>

NextAcks ==
    \/ AppendAcknowledgement
    \/ SubscriptionAcknowledgements
    \/ PublishDrained
    \/ AsyncPublishSend
    \/ AsyncSendRequestMatch
    \/ EnsureSecureChannelToken
    \/ AsyncSendRequestEnsured
    \/ AsyncSendRequestEnqueue
    \/ AsyncPublishReturn

SpecAcks == InitIssue /\ [][NextAcks]_vars

\* ------------------------------------------------------------- the locks
\* SpecLocks runs send_request with every acquisition of a lock by the session
\* driver thread as a step of its own: the step that takes the lock, and the
\* step that works under it and drops the guard at the end of its scope.  The
\* steps that take no lock are those of Spec.

\* The variables of the other specifications, which no step here changes.
lockless_vars == <<handle, handle_n, handle_out, issued, cycle>>

\* trace_write_lock_unwrap!(self.message_queue), trace_read_lock_unwrap! and
\* trace_write_lock_unwrap!(self.secure_channel): the thread blocks until the
\* lock is free and then holds it.
Acquire(lock) ==
    /\ lock \notin locks
    /\ locks' = locks \cup {lock}
    /\ UNCHANGED <<session, secure_channel, message_queue, thread, hist, lockless_vars>>

\* line 227, for the poll of the wait loop.
TakeResponseLock ==
    /\ At("wait_for_sync_response", "poll")
    /\ Acquire("message_queue")

\* line 228 and the end of take_response; held is what the thread holds after it.
TakeResponseUnder(held) ==
    /\ At("wait_for_sync_response", "poll")
    /\ "message_queue" \in locks
    /\ locks' = held
    /\ LET taken == take_response(Top.request_handle)
           polled == [hist EXCEPT !.polls = @ + 1]
       IN /\ message_queue' = taken.mq
          /\ IF taken.some
             THEN Return(Ok_response(taken.response),
                      [polled EXCEPT
                          !.takes = Append(@,
                              [handle |-> Top.request_handle,
                               stored |-> {r \in message_queue.responses :
                                              r.request_handle = Top.request_handle}]),
                          !.waits = Append(@, Wait(Top, TRUE))])
             ELSE /\ stack' = Goto("check")
                  /\ hist' = polled
                  /\ UNCHANGED ret
    /\ UNCHANGED <<session, secure_channel, panicked, now, header, calls, lockless_vars>>

\* take_response that hands its guard to the wait loop: the lock stays held.
TakeResponseLocked_keeps ==
    /\ "message_queue" \in locks
    /\ TakeResponseUnder(locks)

\* take_response: the guard is a local of take_response and is dropped when
\* it returns.
TakeResponseLocked ==
    /\ "message_queue" \in locks
    /\ TakeResponseUnder(locks \ {"message_queue"})

\* line 232
RequestHasTimedOutLock ==
    /\ At("wait_for_sync_response", "notify")
    /\ Acquire("message_queue")

\* line 233 and the end of request_has_timed_out
RequestHasTimedOutLocked ==
    /\ At("wait_for_sync_response", "notify")
    /\ "message_queue" \in locks
    /\ locks' = locks \ {"message_queue"}
    /\ message_queue' = request_has_timed_out(Top.request_handle)
    /\ Return(Err("BadTimeout"), [hist EXCEPT !.waits = Append(@, Wait(Top, FALSE))])
    /\ UNCHANGED <<session, secure_channel, panicked, now, header, calls, lockless_vars>>

\* line 237
AddRequestLock ==
    /\ At("async_send_request", "enqueue")
    /\ Acquire("message_queue")

\* line 238 and the end of add_request, and the return of async_send_request
AddRequestLocked ==
    /\ At("async_send_request", "enqueue")
    /\ "message_queue" \in locks
    /\ locks' = locks \ {"message_queue"}
    /\ message_queue' = add_request(Top.request, Top.async)
    /\ Return(Ok_handle(Message_request_handle(Top.request)), hist)
    /\ UNCHANGED <<session, secure_channel, panicked, now, header, calls, lockless_vars>>

\* line 244
ShouldRenewLock ==
    /\ At("ensure_secure_channel_token", "start")
    /\ Acquire("secure_channel")

\* lines 245-251: the predicate is read, the block ends and the guard with it.
ShouldRenewLocked ==
    /\ At("ensure_secure_channel_token", "start")
    /\ "secure_channel" \in locks
    /\ locks' = locks \ {"secure_channel"}
    /\ IF should_renew_security_token
       THEN /\ stack' = Call([Frame("issue_or_renew_secure_channel") EXCEPT
                                  !.request_type = "Renew"], "renewed")
            /\ UNCHANGED <<ret, hist>>
       ELSE Return(Ok_unit, hist)
    /\ UNCHANGED <<session, secure_channel, message_queue, panicked, now, header, calls,
                   lockless_vars>>

\* line 260
NonceLock ==
    /\ At("issue_or_renew_secure_channel", "start")
    /\ Acquire("secure_channel")

\* lines 261-264: the block ends before the request is built.
NonceLocked ==
    /\ At("issue_or_renew_secure_channel", "start")
    /\ "secure_channel" \in locks
    /\ locks' = locks \ {"secure_channel"}
    /\ LET client_nonce == SecureChannel_random_nonce(secure_channel)
       IN /\ secure_channel' = SecureChannel_set_local_nonce(secure_channel, client_nonce)
          /\ stack' = [stack EXCEPT ![Len(stack)] =
                  [@ EXCEPT !.pc = "build",
                            !.security_mode = secure_channel.security_mode,
                            !.security_policy = secure_channel.security_policy,
                            !.client_nonce = client_nonce]]
    /\ hist' = [hist EXCEPT !.channel_calls = Append(@, "set_local_nonce")]
    /\ UNCHANGED <<session, message_queue, ret, panicked, now, header, calls,
                   lockless_vars>>

\* The response send_request returned is an OpenSecureChannelResponse: the
\* branch of line 280 that takes the lock of the secure channel.
SetsToken == ret.ok /\ IsOpenSecureChannelResponse(ret.response)

\* The ? of line 279 and the branch of line 293 take no lock.
IssueOrRenewNoToken ==
    /\ ~SetsToken
    /\ IssueOrRenewResponse

\* line 283
SetTokenLock ==
    /\ At("issue_or_renew_secure_channel", "response")
    /\ SetsToken
    /\ Acquire("secure_channel")

\* lines 284-291: the guard is dropped at the end of the block, or by the ?
\* of line 287.
SetTokenLocked ==
    /\ At("issue_or_renew_secure_channel", "response")
    /\ SetsToken
    /\ "secure_channel" \in locks
    /\ locks' = locks \ {"secure_channel"}
    /\ LET sc1 == SecureChannel_set_security_token(secure_channel,
                                                   ret.response.security_token)
           nonce == SecureChannel_set_remote_nonce_from_byte_string(
                        sc1, ret.response.server_nonce)
       IN IF DerivesKeys(Top.security_policy, Top.security_mode)
          THEN IF nonce.ok
               THEN /\ secure_channel' = SecureChannel_derive_keys(nonce.sc)
                    /\ Return(Ok_unit,
                           [hist EXCEPT
                               !.renewals = Append(@, Renewal(Top, Ok_unit)),
                               !.channel_calls = @ \o <<"set_security_token",
                                   "set_remote_nonce_from_byte_string", "derive_keys">>])
               ELSE /\ secure_channel' = sc1
                    /\ Return(Err(nonce.status),
                           [hist EXCEPT
                               !.renewals = Append(@, Renewal(Top, Err(nonce.status))),
                               !.channel_calls = @ \o <<"set_security_token",
                                   "set_remote_nonce_from_byte_string">>])
          ELSE /\ secure_channel' = sc1
               /\ Return(Ok_unit,
                      [hist EXCEPT
                          !.renewals = Append(@, Renewal(Top, Ok_unit)),
                          !.channel_calls = Append(@, "set_security_token")])
    /\ UNCHANGED <<session, message_queue, panicked, now, header, calls, lockless_vars>>

\* The background reader takes the lock of the queue to store a response: it
\* waits while the session driver thread holds it.
DepositLocked ==
    /\ "message_queue" \notin locks
    /\ Deposit

NextLocks ==
    \/ MakeRequestHeader
    \/ CallSendRequest
    \/ SendRequestSend
    \/ SendRequestWait
    \/ SendRequestReturn
    \/ AsyncSendRequestMatch
    \/ AsyncSendRequestEnsured
    \/ AddRequestLock
    \/ AddRequestLocked
    \/ ShouldRenewLock
    \/ ShouldRenewLocked
    \/ EnsureSecureChannelTokenReturn
    \/ NonceLock
    \/ NonceLocked
    \/ IssueOrRenewSend
    \/ IssueOrRenewNoToken
    \/ SetTokenLock
    \/ SetTokenLocked
    \/ WaitEntry
    \/ TakeResponseLock
    \/ TakeResponseLocked
    \/ WaitCheckTime
    \/ RequestHasTimedOutLock
    \/ RequestHasTimedOutLocked
    \/ WaitSleep
    \/ DepositLocked
    \/ ChannelAges

SpecLocks == Init /\ [][NextLocks]_vars

\* ------------------------------------------- the order of the queued requests

\* The session driver enters a method of SessionState with the requests of
\* the earlier calls still in the queue: the queue is followed over several
\* calls.
EnterKeeping(frame, h) ==
    /\ Idle
    /\ Len(message_queue.requests) < MaxQueued
    /\ stack' = <<[frame EXCEPT !.began = 0]>>
    /\ now' = 0
    /\ ret' = Ok_unit
    /\ hist' = h
    /\ UNCHANGED <<session, secure_channel, message_queue, panicked, calls, handle_vars>>

\* The session driver sends, with async_send_request, the request it built a
\* header for.
SendBuilt ==
    /\ header # NullHeader
    /\ EnterKeeping([Frame("async_send_request") EXCEPT
                         !.request = CallerRequest("ReadRequest", header),
                         !.async = TRUE],
                    NewHist("async_send_request", CallerRequest("ReadRequest", header),
                            TRUE, "none"))
    /\ header' = NullHeader

\* The session driver calls async_publish; it has no header of its own
\* waiting to be sent.
PublishKept ==
    /\ header = NullHeader
    /\ EnterKeeping(Frame("async_publish"),
                    NewHist("async_publish", NoRequest, TRUE, "none"))
    /\ UNCHANGED header

NextOrder ==
    \/ MakeRequestHeader
    \/ SendBuilt
    \/ PublishKept
    \/ AsyncPublishSend
    \/ AsyncPublishReturn
    \/ AsyncSendRequestMatch
    \/ AsyncSendRequestEnsured
    \/ AsyncSendRequestEnqueue
    \/ EnsureSecureChannelToken
    \/ EnsureSecureChannelTokenReturn
    \/ IssueOrRenewNonce
    \/ IssueOrRenewSend
    \/ IssueOrRenewResponse
    \/ SendRequestSend
    \/ SendRequestWait
    \/ SendRequestReturn
    \/ WaitEntry
    \/ WaitPoll
    \/ WaitCheckTime
    \/ WaitTimeout
    \/ WaitSleep
    \/ Deposit
    \/ ChannelAges

SpecOrder == InitIssue /\ [][NextOrder]_vars

\* ------------------------------------------------------------------ claims

\* The top-level call has returned.
Done == hist.done /\ Idle

\* The handle in the header of the request the caller passed.
CallerHandle == Message_request_handle(hist.request)

\* The kind of the request the top-level call sends through async_send_request.
CallerKind == IF hist.fn = "async_publish" THEN "PublishRequest" ELSE hist.request.kind

\* The top-level call sends a request that runs the opportunistic renewal.
Renews ==
    /\ hist.fn \in {"send_request", "async_send_request", "async_publish"}
    /\ CallerKind \notin {"OpenSecureChannelRequest", "CloseSecureChannelRequest"}
    /\ hist.should_renew

\* The number of elements of the sequence q that satisfy P.
Count(q, P(_)) == Cardinality({i \in 1..Len(q) : P(q[i])})

IsRenewRequest(e) ==
    e.request.kind = "OpenSecureChannelRequest" /\ e.request.request_type = "Renew"

Notified(h) == \E i \in 1..Len(message_queue.timed_out) : message_queue.timed_out[i] = h

Taken(h) == \E i \in 1..Len(hist.takes) : hist.takes[i].handle = h

\* C1: a send_request of a request with a non-zero handle h, with a response
\* deposited under h before the deadline of its wait loop, returns Ok with the
\* response the store held under h, and the store is not notified of a
\* timeout for h.
C1_ResponseInTimeIsReturned ==
    \A i \in 1..Len(hist.sends) :
        LET s == hist.sends[i]
            h == Message_request_handle(s.request)
        IN (h # 0 /\ h \in hist.in_time) =>
               /\ s.ret.ok
               /\ s.ret.response.request_handle = h
               /\ \E j \in 1..Len(hist.takes) :
                      hist.takes[j].handle = h /\ hist.takes[j].stored = {s.ret.response}
               /\ ~Notified(h)

\* C1, witness: send_request returned the response deposited in time under its
\* handle while the store held a response under another handle.
C1_Witness ==
    /\ Done
    /\ hist.fn = "send_request"
    /\ CallerHandle # 0
    /\ CallerHandle \in hist.in_time
    /\ ret.ok
    /\ ret.response.request_handle = CallerHandle
    /\ \E r \in message_queue.responses : r.request_handle # CallerHandle

\* C2 as stated: a send_request of a request with a non-zero handle h to which
\* the store never yields a response returns Timeout, and in the call the
\* store is notified of a timeout exactly once, with h.
C2_Original ==
    (Done /\ hist.fn = "send_request" /\ CallerHandle # 0 /\ hist.takes = <<>>) =>
        /\ ret = Err("BadTimeout")
        /\ message_queue.timed_out = <<CallerHandle>>

\* C2, amended: such a call returns Timeout and notifies the store exactly
\* once with h; a call that runs the opportunistic renewal notifies it once
\* more, before, with the handle of the renewal's OpenSecureChannelRequest,
\* and every send_request the store yields nothing to returns Timeout with one
\* notification for its handle.
C2_TimeoutNotifiedOncePerRequest ==
    /\ (Done /\ hist.fn = "send_request" /\ CallerHandle # 0 /\ hist.takes = <<>>) =>
           /\ ret = Err("BadTimeout")
           /\ message_queue.timed_out =
                  IF Renews
                  THEN <<Message_request_handle(message_queue.requests[1].request),
                         CallerHandle>>
                  ELSE <<CallerHandle>>
           /\ Renews => /\ IsRenewRequest(message_queue.requests[1])
                        /\ Message_request_handle(message_queue.requests[1].request)
                               # CallerHandle
    /\ \A i \in 1..Len(hist.sends) :
           LET s == hist.sends[i]
               h == Message_request_handle(s.request)
           IN (h # 0 /\ ~Taken(h)) =>
                  /\ s.ret = Err("BadTimeout")
                  /\ Count(message_queue.timed_out, LAMBDA x : x = h) = 1

\* C2, witness: a send_request that ran the renewal timed out twice.
C2_Witness ==
    /\ Done
    /\ hist.fn = "send_request"
    /\ CallerHandle # 0
    /\ hist.takes = <<>>
    /\ Renews
    /\ ret = Err("BadTimeout")
    /\ Len(message_queue.timed_out) = 2

\* C3 as stated: a send_request to which the store never responds returns
\* Timeout no earlier than the timeout and no later than the timeout plus one
\* polling period after the call began.
C3_Original ==
    \A i \in 1..Len(hist.sends) :
        LET s == hist.sends[i]
        IN (Message_request_handle(s.request) # 0 /\ hist.takes = <<>>) =>
               /\ s.ret = Err("BadTimeout")
               /\ s.ended - s.began >= request_timeout
               /\ s.ended - s.began <= request_timeout + SYNC_POLLING_PERIOD

\* C3, amended: every wait loop that times out returns no earlier than the
\* timeout and no later than the timeout plus one polling period after the
\* loop began; a send_request the store never responds to returns Timeout
\* within these bounds of its beginning when it runs no renewal, and within
\* twice these bounds when it first runs the opportunistic renewal.
C3_TimeoutWithinOnePollOfEachWait ==
    /\ \A i \in 1..Len(hist.waits) :
           LET w == hist.waits[i]
           IN ~w.ok =>
                  /\ w.ended - w.start >= request_timeout
                  /\ w.ended - w.start <= request_timeout + SYNC_POLLING_PERIOD
    /\ \A i \in 1..Len(hist.sends) :
           LET s == hist.sends[i]
               renewed == s.request = hist.request /\ Renews
               n == IF renewed THEN 2 ELSE 1
           IN (Message_request_handle(s.request) # 0 /\ hist.takes = <<>>) =>
                  /\ s.ret = Err("BadTimeout")
                  /\ s.ended - s.began >= n * request_timeout
                  /\ s.ended - s.began <= n * (request_timeout + SYNC_POLLING_PERIOD)

\* C3, witness: a send_request that ran the renewal returned Timeout later
\* than one timeout and one polling period after it began.
C3_Witness ==
    /\ Done
    /\ hist.fn = "send_request"
    /\ CallerHandle # 0
    /\ hist.takes = <<>>
    /\ Renews
    /\ ret = Err("BadTimeout")
    /\ now > request_timeout + SYNC_POLLING_PERIOD

SendsThroughAsync == hist.fn \in {"send_request", "async_send_request", "async_publish"}

InChannelCalls(method) ==
    \E i \in 1..Len(hist.channel_calls) : hist.channel_calls[i] = method

\* The nonce is consumed and the keys are derived under this policy and mode.
Signs(policy, mode) == policy # "None" /\ mode \in {"Sign", "SignAndEncrypt"}

\* C4: a send through async_send_request performs an OpenSecureChannel
\* exchange of type Renew if and only if its request is of neither handshake
\* kind and the channel says the token should be renewed; the renewal's own
\* request starts no renewal, so a send runs at most one.
C4_RenewalIffNeeded ==
    /\ SendsThroughAsync =>
           /\ Count(message_queue.requests, IsRenewRequest) <= 1
           /\ Len(hist.renewals) <= 1
    /\ (Done /\ SendsThroughAsync) =>
           /\ Count(message_queue.requests, IsRenewRequest) = IF Renews THEN 1 ELSE 0
           /\ Len(hist.renewals) = IF Renews THEN 1 ELSE 0
    /\ hist.fn = "issue_or_renew_secure_channel" =>
           Count(message_queue.requests,
                 LAMBDA e : e.request.kind = "OpenSecureChannelRequest") <= 1

\* C4, witness: an async_send_request that ran one renewal has returned.
C4_Witness ==
    /\ Done
    /\ hist.fn = "async_send_request"
    /\ Renews
    /\ Count(message_queue.requests, IsRenewRequest) = 1
    /\ Len(message_queue.requests) = 2

\* C5: whatever the renewal ends with, async_send_request enqueues its request
\* once, with the tag it was given, and returns Ok with the handle of the
\* request's header.
C5_RenewalNeverFailsTheSend ==
    /\ (Done /\ hist.fn = "async_send_request") =>
           /\ ret = Ok_handle(CallerHandle)
           /\ Count(message_queue.requests, LAMBDA e : e.request = hist.request) = 1
           /\ Count(message_queue.requests,
                    LAMBDA e : e = [request |-> hist.request, async |-> hist.async]) = 1
    /\ (Done /\ hist.fn = "async_publish") => ret.ok

\* C5, witness: an async_send_request whose renewal ended with the nonce error
\* returned Ok.
C5_Witness ==
    /\ Done
    /\ hist.fn = "async_send_request"
    /\ Len(hist.ensured) = 1
    /\ hist.ensured[1] = Err("NonceError")
    /\ ret = Ok_handle(CallerHandle)

\* C6: issue_or_renew_secure_channel called by the session driver returns
\* Timeout when the store yields no response to its request, the
\* unexpected-response error when the response taken under the handle of its
\* request is not an OpenSecureChannelResponse, the nonce error when the
\* server nonce is consumed and rejected, and Ok otherwise.
C6_ExplicitRenewalResult ==
    (Done /\ hist.fn = "issue_or_renew_secure_channel") =>
        /\ Len(message_queue.requests) = 1
        /\ message_queue.requests[1].request.kind = "OpenSecureChannelRequest"
        /\ message_queue.requests[1].request.request_type = hist.request_type
        /\ IF hist.takes = <<>>
           THEN ret = Err("BadTimeout")
           ELSE /\ hist.takes[1].handle =
                       Message_request_handle(message_queue.requests[1].request)
                /\ \E r \in hist.takes[1].stored :
                       /\ hist.takes[1].stored = {r}
                       /\ ret = IF r.kind # "OpenSecureChannelResponse"
                                THEN Err("UnexpectedResponse")
                                ELSE IF Signs(secure_channel.security_policy,
                                              secure_channel.security_mode)
                                        /\ r.server_nonce = "null"
                                THEN Err("NonceError")
                                ELSE Ok_unit

\* C6, witness: an explicit renewal that consumed the server nonce returned Ok.
C6_Witness ==
    /\ Done
    /\ hist.fn = "issue_or_renew_secure_channel"
    /\ hist.takes # <<>>
    /\ Signs(secure_channel.security_policy, secure_channel.security_mode)
    /\ ret = Ok_unit

\* The response a renewal received is an OpenSecureChannelResponse.
Matched(renewal) ==
    renewal.response.ok /\ renewal.response.response.kind = "OpenSecureChannelResponse"

\* C7 as stated: a renewal that receives an OpenSecureChannelResponse sets the
\* token, and consumes the server nonce and derives the keys if and only if
\* the policy is not None and the mode is Sign or SignAndEncrypt.
C7_Original ==
    \A i \in 1..Len(hist.renewals) :
        LET renewal == hist.renewals[i]
        IN Matched(renewal) =>
               /\ secure_channel.security_token = renewal.response.response.security_token
               /\ (InChannelCalls("set_remote_nonce_from_byte_string")
                       /\ InChannelCalls("derive_keys"))
                  <=> Signs(renewal.security_policy, renewal.security_mode)

\* C7, amended: such a renewal sets the token; it passes the server nonce to
\* set_remote_nonce_from_byte_string if and only if the policy is not None
\* and the mode is Sign or SignAndEncrypt, and invokes derive_keys if and only
\* if, besides, the nonce was accepted; under mode None or policy None
\* neither is ever invoked.
C7_KeysDerivedIffSignedAndNonceAccepted ==
    /\ \A i \in 1..Len(hist.renewals) :
           LET renewal == hist.renewals[i]
               response == renewal.response.response
               signs == Signs(renewal.security_policy, renewal.security_mode)
           IN Matched(renewal) =>
                  /\ secure_channel.security_token = response.security_token
                  /\ InChannelCalls("set_security_token")
                  /\ InChannelCalls("set_remote_nonce_from_byte_string") <=> signs
                  /\ InChannelCalls("derive_keys")
                         <=> (signs /\ response.server_nonce # "null")
                  /\ InChannelCalls("derive_keys") =>
                         /\ secure_channel.remote_nonce = response.server_nonce
                         /\ secure_channel.keys = [local |-> secure_channel.local_nonce,
                                                   remote |-> response.server_nonce]
    /\ ~Signs(secure_channel.security_policy, secure_channel.security_mode) =>
           /\ ~InChannelCalls("set_remote_nonce_from_byte_string")
           /\ ~InChannelCalls("derive_keys")
           /\ secure_channel.remote_nonce = "null"
           /\ secure_channel.keys = [local |-> 0, remote |-> "null"]

\* C7, witness: under a signing mode a renewal stored the token of a response
\* whose nonce was rejected, and derived no keys.
C7_Witness ==
    /\ Len(hist.renewals) = 1
    /\ Matched(hist.renewals[1])
    /\ Signs(hist.renewals[1].security_policy, hist.renewals[1].security_mode)
    /\ hist.renewals[1].ret = Err("NonceError")
    /\ secure_channel.security_token = hist.renewals[1].response.response.security_token
    /\ ~InChannelCalls("derive_keys")

InWaitLoop == \E k \in 1..Len(stack) : stack[k].fn = "wait_for_sync_response"

\* C8 as stated: async_send_request and async_publish return without entering
\* the wait loop: they poll the store for no response and do not sleep.
C8_Original ==
    hist.fn \in {"async_send_request", "async_publish"} =>
        /\ ~InWaitLoop
        /\ hist.polls = 0
        /\ hist.sleeps = 0

\* C8, amended: async_send_request and async_publish do not enter the wait
\* loop when the request is of a handshake kind or the channel does not say
\* the token should be renewed; otherwise they wait, in the renewal, for the
\* response to its OpenSecureChannelRequest and for nothing else, no longer
\* than the request timeout and one polling period.
C8_BlocksOnlyInRenewal ==
    hist.fn \in {"async_send_request", "async_publish"} =>
        IF Renews
        THEN /\ InWaitLoop =>
                    /\ Top.fn = "wait_for_sync_response"
                    /\ IsRenewRequest(message_queue.requests[1])
                    /\ Top.request_handle =
                           Message_request_handle(message_queue.requests[1].request)
             /\ now <= request_timeout + SYNC_POLLING_PERIOD
             /\ Len(hist.waits) <= 1
             /\ Done => Len(hist.waits) = 1 /\ hist.polls >= 1
        ELSE /\ ~InWaitLoop
             /\ hist.polls = 0
             /\ hist.sleeps = 0
             /\ now = 0

\* C8, witness: an async_publish that slept in the wait loop of the renewal
\* has returned.
C8_Witness ==
    /\ Done
    /\ hist.fn = "async_publish"
    /\ Renews
    /\ hist.sleeps > 0
    /\ ret.ok

\* C9: when a send of a request of no handshake kind finds that the token
\* should be renewed, its request is enqueued after the Renew
\* OpenSecureChannelRequest, and only once the wait for that request has ended
\* with its response taken or with the timeout notified; it is not enqueued
\* while the renewal is in progress.
C9_RenewalEndsBeforeCallerEnqueued ==
    \A i \in 1..Len(message_queue.requests) :
        (Renews /\ message_queue.requests[i].request.kind \in {"ReadRequest", "PublishRequest"}) =>
            /\ i = 2
            /\ IsRenewRequest(message_queue.requests[1])
            /\ \E j \in 1..Len(hist.waits) :
                   /\ hist.waits[j].handle =
                          Message_request_handle(message_queue.requests[1].request)
                   /\ IF hist.waits[j].ok
                      THEN Taken(hist.waits[j].handle)
                      ELSE Notified(hist.waits[j].handle)
            /\ Len(hist.renewals) = 1
            /\ \A k \in 1..Len(stack) :
                   stack[k].fn \notin {"issue_or_renew_secure_channel",
                                       "ensure_secure_channel_token"}

\* C9, witness: the request of the caller is enqueued behind a renewal whose
\* response was taken.
C9_Witness ==
    /\ Renews
    /\ Len(message_queue.requests) = 2
    /\ message_queue.requests[2].request.kind = "ReadRequest"
    /\ IsRenewRequest(message_queue.requests[1])
    /\ Taken(Message_request_handle(message_queue.requests[1].request))

\* C10: the n-th call of next() on an allocator seeded at first returns
\* first + ((n - 1) mod (max - first + 1)): the call after the one that
\* returned max returns first, no value repeats within one cycle, and the
\* counter stays within first..max.
C10_HandleCycles ==
    /\ Len(handle_out) = handle_n
    /\ handle.next >= handle.first
    /\ handle.next <= U32_MAX
    /\ handle_n >= 1 =>
           LET v == handle_out[handle_n]
           IN /\ v = handle.first + ((handle_n - 1) % (U32_MAX - handle.first + 1))
              /\ v <= U32_MAX
              /\ (handle_n >= 2 /\ handle_out[handle_n - 1] = U32_MAX) => v = handle.first
              /\ \A j \in 1..(handle_n - 1) :
                     (handle_n - j < U32_MAX - handle.first + 1) => handle_out[j] # v

\* C10, witness: the allocator seeded at 1000 has issued its maximum and then
\* its seed again.
C10_Witness ==
    /\ handle.first = MONITORED_ITEM_HANDLE_FIRST
    /\ handle_n = U32_MAX - handle.first + 2
    /\ handle_out[handle_n - 1] = U32_MAX
    /\ handle_out[handle_n] = handle.first

\* C11: whatever make_request_header and next_monitored_item_handle calls the
\* session has made, wraps of the allocators included, no handle issued by the
\* request handle allocator or the monitored item handle allocator is 0, and
\* the next value either allocator stores is not 0.
C11_NoZeroHandle ==
    /\ 0 \notin issued.handles
    /\ 0 \notin issued.items
    /\ request_handle.next # 0
    /\ monitored_item_handle.next # 0
    /\ issued.headers >= 1 => header.request_handle # 0
    /\ issued.items_n >= 1 => issued.last_item # 0
    /\ issued.handles \subseteq REQUEST_HANDLE_FIRST..U32_MAX
    /\ issued.items \subseteq MONITORED_ITEM_HANDLE_FIRST..U32_MAX

\* C11, witness: both allocators have wrapped and issued their seeds again.
C11_Witness ==
    /\ issued.wrapped = {"request_handle", "monitored_item_handle"}
    /\ issued.headers = U32_MAX - REQUEST_HANDLE_FIRST + 2
    /\ header.request_handle = REQUEST_HANDLE_FIRST
    /\ issued.items_n = U32_MAX - MONITORED_ITEM_HANDLE_FIRST + 2
    /\ issued.last_item = MONITORED_ITEM_HANDLE_FIRST

\* C12 as stated: while neither allocator has wrapped, the handles the request
\* handle allocator issued and those the monitored item handle allocator
\* issued are disjoint.
C12_Original ==
    issued.wrapped = {} => issued.handles \cap issued.items = {}

\* C12, amended: while neither allocator has wrapped, the request handles are
\* 1..k for the k headers built and the monitored item handles are
\* 1000..999+n for the n issued; they are disjoint exactly as long as fewer
\* than 1000 headers were built or no monitored item handle was issued.
C12_DisjointBelowItemSeed ==
    issued.wrapped = {} =>
        /\ issued.handles = 1..issued.headers
        /\ issued.items = 1000..(999 + issued.items_n)
        /\ (issued.handles \cap issued.items = {})
               <=> (issued.headers < 1000 \/ issued.items_n = 0)

\* C12, witness: before any wrap the request handle allocator issued 1000,
\* which the monitored item handle allocator issued as well.
C12_Witness ==
    /\ issued.wrapped = {}
    /\ issued.items_n >= 1
    /\ header.request_handle = MONITORED_ITEM_HANDLE_FIRST
    /\ MONITORED_ITEM_HANDLE_FIRST \in issued.handles \cap issued.items

\* A step that builds a header sets it from the session as it is, advances the
\* request handle allocator by one and changes nothing else of the session;
\* any other step leaves the allocator and the header alone.
BuildsHeaderOnly ==
    IF issued'.headers # issued.headers
    THEN /\ header'.request_handle = request_handle.next
         /\ header'.authentication_token = authentication_token
         /\ header'.timeout_hint = request_timeout
         /\ request_handle' = Handle_next(request_handle).handle
         /\ UNCHANGED <<request_timeout, authentication_token, monitored_item_handle,
                        subscription_acknowledgements, secure_channel, message_queue>>
    ELSE UNCHANGED <<request_handle, header>>

\* C13: the k-th header make_request_header builds carries the k-th value of
\* the request handle allocator, whatever next_monitored_item_handle calls
\* come between, the request timeout of the session as its timeout_hint and
\* the authentication token the session had at the call; the call advances
\* the request handle allocator by one and changes nothing else of the
\* session.
C13_HeaderInAllocatorOrder ==
    /\ [](issued.headers >= 1 =>
             /\ header.request_handle =
                    REQUEST_HANDLE_FIRST
                        + ((issued.headers - 1) % (U32_MAX - REQUEST_HANDLE_FIRST + 1))
             /\ header.timeout_hint = request_timeout
             /\ header.authentication_token = issued.token)
    /\ [][BuildsHeaderOnly]_vars

\* C13, witness: after monitored item handles were issued and the
\* authentication token was set, the header built after the wrap of the
\* allocator carries its seed and the token.
C13_Witness ==
    /\ issued.headers = U32_MAX - REQUEST_HANDLE_FIRST + 2
    /\ issued.items_n >= 1
    /\ header.request_handle = REQUEST_HANDLE_FIRST
    /\ header.authentication_token = "token"
    /\ authentication_token = "null"

IsPublishRequest(e) == e.request.kind = "PublishRequest"

\* C14: async_publish of an acknowledgement list enqueues one publish request,
\* tagged asynchronous, whose acknowledgement list is absent if the list is
\* empty and otherwise present and equal to it, and returns the handle of the
\* header of that request, which the request handle allocator issued in the
\* call.
C14_PublishCarriesAcknowledgements ==
    (Done /\ hist.fn = "async_publish") =>
        /\ Count(message_queue.requests, IsPublishRequest) = 1
        /\ \A i \in 1..Len(message_queue.requests) :
               LET e == message_queue.requests[i]
                   list == e.request.subscription_acknowledgements
               IN IsPublishRequest(e) =>
                      /\ e.async
                      /\ list.present <=> hist.acks # <<>>
                      /\ list.value = hist.acks
                      /\ ret = Ok_handle(Message_request_handle(e.request))
                      /\ Message_request_handle(e.request) # 0
                      /\ Message_request_handle(e.request) + Len(message_queue.requests)
                             <= request_handle.next
                      /\ e.request.request_header.authentication_token = authentication_token
                      /\ e.request.request_header.timeout_hint = request_timeout

\* C14, witness: an async_publish of two acknowledgements has returned the
\* handle of the request that carries them.
C14_Witness ==
    /\ Done
    /\ hist.fn = "async_publish"
    /\ hist.acks = <<"ack1", "ack2">>
    /\ Len(message_queue.requests) = 1
    /\ message_queue.requests[1].request.subscription_acknowledgements
           = [present |-> TRUE, value |-> <<"ack1", "ack2">>]
    /\ ret = Ok_handle(Message_request_handle(message_queue.requests[1].request))

RECURSIVE Flatten(_)
\* The concatenation of the lists of the sequence q.
Flatten(q) == IF q = <<>> THEN <<>> ELSE Head(q) \o Flatten(Tail(q))

\* The elements of the list q.
Elements(q) == {q[i] : i \in 1..Len(q)}

\* A subscription_acknowledgements() call returns the whole pending list and
\* leaves it empty.
DrainsAll ==
    Len(cycle'.returned) # Len(cycle.returned) =>
        /\ cycle'.returned = Append(cycle.returned, subscription_acknowledgements)
        /\ subscription_acknowledgements' = <<>>

\* C15: in every interleaving of appends and subscription_acknowledgements()
\* calls, the lists the calls returned, one after the other, and the pending
\* list make up the acknowledgements appended, in append order, each once;
\* the pending list is empty after each call; and the publish requests built
\* from the lists returned carry no acknowledgement twice.
C15_AcknowledgementsDrainedOnce ==
    /\ [](/\ Flatten(cycle.returned) \o subscription_acknowledgements = cycle.appended
          /\ \A i, j \in 1..Len(cycle.appended) :
                 cycle.appended[i] = cycle.appended[j] => i = j
          /\ \A i, j \in 1..Len(message_queue.requests) :
                 i # j =>
                     Elements(message_queue.requests[i].request
                                  .subscription_acknowledgements.value)
                     \cap Elements(message_queue.requests[j].request
                                       .subscription_acknowledgements.value) = {}
          /\ \A i \in 1..Len(message_queue.requests) :
                 \E k \in 1..Len(cycle.returned) :
                     message_queue.requests[i].request.subscription_acknowledgements.value
                         = cycle.returned[k])
    /\ [][DrainsAll]_vars

\* C15, witness: two publish requests carry the three acknowledgements
\* appended, the first one of them and the second the other two.
C15_Witness ==
    /\ Len(message_queue.requests) = 2
    /\ message_queue.requests[1].request.subscription_acknowledgements.value
           = <<SubscriptionAcknowledgement(1)>>
    /\ message_queue.requests[2].request.subscription_acknowledgements.value
           = <<SubscriptionAcknowledgement(2), SubscriptionAcknowledgement(3)>>
    /\ subscription_acknowledgements = <<>>

\* Once the session driver thread has panicked it takes no step: its stack,
\* the value it returned last and the session stay as they are.
PanicHalts ==
    panicked => /\ panicked'
                /\ UNCHANGED <<stack, ret, session, secure_channel, now>>
                /\ hist'.polls = hist.polls
                /\ hist'.done = hist.done
                /\ message_queue'.requests = message_queue.requests
                /\ message_queue'.timed_out = message_queue.timed_out

Sleeping == Running /\ Top.fn = "wait_for_sync_response" /\ Top.pc = "sleep"

\* The positions at which the thread works under the lock of the queue, and
\* under the lock of the secure channel.
UnderQueueLock ==
    Running /\ \/ Top.fn = "wait_for_sync_response" /\ Top.pc \in {"poll", "notify"}
               \/ Top.fn = "async_send_request" /\ Top.pc = "enqueue"

UnderChannelLock ==
    Running /\ \/ Top.fn = "ensure_secure_channel_token" /\ Top.pc = "start"
               \/ Top.fn = "issue_or_renew_secure_channel" /\ Top.pc \in {"start", "response"}

\* A step of the thread that holds a lock is the one step it makes under the
\* lock, and it ends with no lock held.
OneStepUnderLock == (locks # {} /\ stack' # stack) => locks' = {}

\* C17: the session driver thread that sleeps between two polls of a wait
\* loop, for the request of the caller or for that of a renewal, holds
\* neither the lock of the queue nor that of the secure channel, so the
\* background reader can take the lock of the queue; the thread holds a lock
\* for one step only, a take_response, an add_request, a
\* request_has_timed_out or a read or update of the secure channel, and never
\* two locks.
C17_NoLockAcrossSleep ==
    /\ [](/\ Sleeping => locks = {}
          /\ "message_queue" \in locks => UnderQueueLock
          /\ "secure_channel" \in locks => UnderChannelLock
          /\ Cardinality(locks) <= 1
          /\ Idle => locks = {})
    /\ [][OneStepUnderLock]_vars

\* C17, witness: while the thread sleeps in the wait loop of a renewal, with
\* no lock held, the response to the renewal is in the store.
C17_Witness ==
    /\ Sleeping
    /\ Len(stack) > 3
    /\ stack[Len(stack) - 2].fn = "issue_or_renew_secure_channel"
    /\ locks = {}
    /\ hist.sleeps >= 1
    /\ \E r \in message_queue.responses : r.request_handle = Top.request_handle

\* The responses the store holds under the handle h.
Stored(h) == {r \in message_queue.responses : r.request_handle = h}

\* The steps of the wait loop: a poll that finds a response returns it
\* whatever the time; a missed poll at or past the deadline leads to the
\* notification; the notification takes nothing from the store and returns
\* Timeout, whatever the store holds by then.
PollThenDeadline ==
    (Running /\ Top.fn = "wait_for_sync_response" /\ stack' # stack) =>
        CASE Top.pc = "poll" /\ Stored(Top.request_handle) # {} ->
                 /\ ret'.ok
                 /\ ret'.response \in Stored(Top.request_handle)
                 /\ message_queue'.timed_out = message_queue.timed_out
          [] Top.pc = "check" /\ now - Top.start >= Top.request_timeout ->
                 stack' = Goto("notify")
          [] Top.pc = "notify" ->
                 /\ ret' = Err("BadTimeout")
                 /\ message_queue'.responses = message_queue.responses
                 /\ message_queue'.timed_out
                        = Append(message_queue.timed_out, Top.request_handle)
          [] OTHER -> TRUE

\* C18: the poll and the timeout notification of the wait loop are two
\* acquisitions of the lock of the queue.  A response the background reader
\* stores under h after the last poll missed, at or past the deadline, and
\* before request_has_timed_out(h), is not taken: the loop notifies the
\* timeout and returns Timeout.  A response a poll finds is returned, also
\* past the deadline, since the poll comes before the look at the clock.
C18_TimeoutIgnoresLateResponse ==
    /\ [](/\ \A i \in 1..Len(hist.waits) :
                 LET w == hist.waits[i]
                 IN IF w.ok
                    THEN Taken(w.handle) /\ ~Notified(w.handle)
                    ELSE /\ ~Taken(w.handle)
                         /\ Notified(w.handle)
                         /\ w.ended - w.start >= request_timeout
          /\ \A i \in 1..Len(hist.sends) :
                 LET h == Message_request_handle(hist.sends[i].request)
                 IN (Notified(h) /\ Stored(h) # {}) =>
                        hist.sends[i].ret = Err("BadTimeout")
          /\ (Running /\ Top.fn = "wait_for_sync_response" /\ Top.pc = "notify") =>
                 /\ now - Top.start >= Top.request_timeout
                 /\ hist.polls >= 1)
    /\ [][PollThenDeadline]_vars

\* C18, witness: in one send_request the wait of the renewal timed out with
\* the response to the renewal in the store, untaken, and the wait for the
\* request of the caller returned a response the poll found at the deadline.
C18_Witness ==
    /\ Done
    /\ hist.fn = "send_request"
    /\ Len(hist.waits) = 2
    /\ ~hist.waits[1].ok
    /\ Stored(hist.waits[1].handle) # {}
    /\ Notified(hist.waits[1].handle)
    /\ hist.waits[2].ok
    /\ hist.waits[2].ended - hist.waits[2].start >= request_timeout
    /\ ret.ok

\* The token, the remote nonce and the derived keys of the channel are those
\* it had when the top-level call began.
ChannelKeepsTokenAndKeys ==
    /\ secure_channel.security_token = hist.channel0.security_token
    /\ secure_channel.remote_nonce = hist.channel0.remote_nonce
    /\ secure_channel.keys = hist.channel0.keys

\* C19: a renewal does not update the channel atomically.  From the nonce
\* block on, before the request is built and sent, the local nonce of the
\* channel is the fresh client nonce of the request, and it stays so on every
\* outcome.  Until the response is processed the token, the remote nonce and
\* the keys are unchanged.  When the server nonce is rejected the call
\* returns the nonce error with the token of the response already stored,
\* derive_keys not invoked and the remote nonce and keys unchanged.  On
\* Timeout or a response of another kind the token, the remote nonce and the
\* keys are unchanged.
C19_RenewalNotAtomic ==
    /\ \A k \in 1..Len(stack) :
           (stack[k].fn = "issue_or_renew_secure_channel" /\ stack[k].pc # "start") =>
               /\ secure_channel.local_nonce = stack[k].client_nonce
               /\ secure_channel.local_nonce # hist.channel0.local_nonce
               /\ ChannelKeepsTokenAndKeys
               /\ stack[k].pc = "response" =>
                      stack[k].request.client_nonce = stack[k].client_nonce
    /\ \A i \in 1..Len(hist.renewals) :
           LET renewal == hist.renewals[i]
           IN /\ secure_channel.local_nonce = renewal.request.client_nonce
              /\ secure_channel.local_nonce # hist.channel0.local_nonce
              /\ InChannelCalls("set_local_nonce")
              /\ renewal.ret = Err("NonceError") =>
                     /\ Matched(renewal)
                     /\ Signs(renewal.security_policy, renewal.security_mode)
                     /\ secure_channel.security_token
                            = renewal.response.response.security_token
                     /\ InChannelCalls("set_security_token")
                     /\ ~InChannelCalls("derive_keys")
                     /\ secure_channel.remote_nonce = hist.channel0.remote_nonce
                     /\ secure_channel.keys = hist.channel0.keys
              /\ (~renewal.ret.ok /\ renewal.ret # Err("NonceError")) =>
                     /\ renewal.ret \in {Err("BadTimeout"), Err("UnexpectedResponse")}
                     /\ renewal.ret = Err("BadTimeout") <=> ~renewal.response.ok
                     /\ ~InChannelCalls("set_security_token")
                     /\ ChannelKeepsTokenAndKeys

\* C19, witness: issue_or_renew_secure_channel returned the nonce error to
\* its caller; the channel holds the fresh local nonce and the token of the
\* response, both new, with the remote nonce and the keys it began with.
C19_Witness ==
    /\ Done
    /\ hist.fn = "issue_or_renew_secure_channel"
    /\ ret = Err("NonceError")
    /\ Len(hist.renewals) = 1
    /\ hist.renewals[1].ret = Err("NonceError")
    /\ secure_channel.local_nonce # hist.channel0.local_nonce
    /\ secure_channel.security_token # hist.channel0.security_token
    /\ secure_channel.security_token = hist.renewals[1].response.response.security_token
    /\ secure_channel.keys = hist.channel0.keys

\* C19, the other outcomes: a renewal timed out, and a renewal took a
\* response of another kind, with the local nonce alone changed.
C19_WitnessTimeout ==
    /\ Done
    /\ Len(hist.renewals) = 1
    /\ hist.renewals[1].ret = Err("BadTimeout")
    /\ secure_channel.local_nonce # hist.channel0.local_nonce
    /\ ChannelKeepsTokenAndKeys

C19_WitnessUnexpected ==
    /\ Done
    /\ Len(hist.renewals) = 1
    /\ hist.renewals[1].ret = Err("UnexpectedResponse")
    /\ secure_channel.local_nonce # hist.channel0.local_nonce
    /\ ChannelKeepsTokenAndKeys

\* The handle of the i-th request of the queue.
QueuedHandle(i) == Message_request_handle(message_queue.requests[i].request)

\* The handles of the queue are strictly increasing in the order of the queue.
QueueInHandleOrder ==
    \A i, j \in 1..Len(message_queue.requests) : i < j => QueuedHandle(i) < QueuedHandle(j)

\* C20: the requests are not enqueued in the order of their handles.  The
\* OpenSecureChannelRequest of an opportunistic renewal is enqueued right
\* before the request that triggered it and carries the handle allocated
\* after it, h + 1 for the trigger h; a request that is not a renewal has a
\* smaller handle than the request enqueued after it.  The queue is in
\* strictly increasing handle order exactly when no renewal came before a
\* request it holds.
C20_RenewalEnqueuedBeforeItsTrigger ==
    LET q == message_queue.requests
    IN /\ \A i \in 1..Len(q) - 1 :
              IF IsRenewRequest(q[i])
              THEN /\ ~IsRenewRequest(q[i + 1])
                   /\ QueuedHandle(i) = QueuedHandle(i + 1) + 1
              ELSE QueuedHandle(i) < QueuedHandle(i + 1)
       /\ QueueInHandleOrder <=> ~\E i \in 1..Len(q) - 1 : IsRenewRequest(q[i])
       /\ (Idle /\ q # <<>>) => ~IsRenewRequest(q[Len(q)])
       /\ \A i \in 1..Len(q) :
              /\ QueuedHandle(i) \in REQUEST_HANDLE_FIRST..(request_handle.next - 1)
              /\ \A j \in 1..Len(q) : QueuedHandle(i) = QueuedHandle(j) => i = j

\* C20, witness: a publish request and a request of the caller each
\* triggered a renewal, and the full queue holds the handles 2, 1, 4, 3.
C20_Witness ==
    LET q == message_queue.requests
    IN /\ Idle
       /\ Len(q) = 4
       /\ IsRenewRequest(q[1]) /\ IsRenewRequest(q[3])
       /\ \E i \in {2, 4} : q[i].request.kind = "PublishRequest"
       /\ \E i \in {2, 4} : q[i].request.kind = "ReadRequest"
       /\ QueuedHandle(1) = QueuedHandle(2) + 1
       /\ QueuedHandle(3) = QueuedHandle(4) + 1
       /\ QueuedHandle(2) < QueuedHandle(3)
       /\ ~QueueInHandleOrder

====
